---- MODULE Spec2Model ----
(***************************************************************************)
(* The POST /run_task handler of api_server.py as a state machine.         *)
(*                                                                         *)
(* Each request is one coroutine.  asyncio runs a coroutine without        *)
(* interruption between two awaits, so a request takes one step from its   *)
(* start to `await agent.run()`, one from there to `await agent.close()`   *)
(* and one from there to its return.  The external collaborators (the      *)
(* model client, Browser, Agent, Agent.run, str() of the run's result,     *)
(* Agent.close) are inputs: each call returns or raises, and an            *)
(* exception is a ValueError or some other subclass of Exception.          *)
(* BaseException-only kinds (task cancellation, interpreter exit) are      *)
(* delivered by the event loop and the process, not raised by the          *)
(* collaborators, and are outside this model.                              *)
(***************************************************************************)
EXTENDS Integers, Sequences, FiniteSets, TLC

\* Number of POST /run_task requests the model handles.
NumReqs == 2

Reqs == 1..NumReqs

\* request.task: every request brings a task text of its own.
TaskOf(r) == "task " \o ToString(r)

\* os.getenv("GEMINI_API_KEY"): None when the variable is absent.
Unset == "<None>"
EnvValues == {Unset, "", "key"}

\* Exception classes the collaborators raise, and the messages they carry.
ExcTypes == {"ValueError", "RuntimeError"}
Msgs == {"boom"}
MissingKeyMsg == "GEMINI_API_KEY environment variable not set."

\* What agent.run() returns.
AgentResults == {"history"}

Exc(t, m) == [type |-> t, msg |-> m]
Ok(v) == [ok |-> TRUE, val |-> v]
Raise(e) == [ok |-> FALSE, exc |-> e]
Raises == {Raise(Exc(t, m)) : t \in ExcTypes, m \in Msgs}

\* Outcomes of the constructors, of agent.run(), of str(agent_result) and
\* of agent.close().
\* str(v): a string, told apart from the object it was made from.
StrOf(v) == [kind |-> "str", parts |-> <<"str of ", v>>]
CtorOutcomes == {Ok("created")} \cup Raises
RunOutcomes == {Ok(v) : v \in AgentResults} \cup Raises
StrOutcomes(v) == {Ok(StrOf(v))} \cup Raises
CloseOutcomes == {Ok("closed")} \cup Raises
Suspended == [ok |-> TRUE, val |-> "<awaiting>"]

\* Python objects.  An object carries the request whose handler built it.
NoneObj == [kind |-> "None"]
LlmObj(r) == [kind |-> "llm", owner |-> r]
BrowserObj(r) == [kind |-> "browser", owner |-> r]
AgentObj(r, t, l, b) ==
  [kind |-> "agent", owner |-> r, task |-> t, llm |-> l, browser |-> b]

\* One external call: the operation, the object it made or was invoked on,
\* and how it came back.
Ev(op, obj, out) == [op |-> op, obj |-> obj, out |-> out]

\* The handler's local variables (its frame).
EmptyFrame ==
  [task_description |-> "", llm |-> NoneObj, browser |-> NoneObj,
   agent |-> NoneObj, agent_result |-> "<unbound>"]

\* Responses.  TaskResponse has the fields result and error; an
\* HTTPException becomes a status code and a detail.
None == NoneObj
NoResponse == [status |-> 0, result |-> None, error |-> None, detail |-> None]
TaskResponse(res) ==
  [status |-> 200, result |-> res, error |-> None, detail |-> None]
HTTPException(code, detail) ==
  [status |-> code, result |-> None, error |-> None, detail |-> detail]

VARIABLES
  env,        \* the value of GEMINI_API_KEY in the process environment
  pc,         \* where each request's coroutine is
  request,    \* the TaskRequest of each request
  frame,      \* the local variables of each handler invocation
  pending,    \* the return value or HTTPException in flight while finally runs
  response,   \* what the handler gave the HTTP layer
  calls,      \* per request, the external calls it made, in order
  cleanups    \* per request, how often the finally block was entered

vars == <<env, pc, request, frame, pending, response, calls, cleanups>>

NoRequest == [task |-> ""]

Init ==
  /\ env \in EnvValues
  /\ pc = [r \in Reqs |-> "Idle"]
  /\ request = [r \in Reqs |-> NoRequest]
  /\ frame = [r \in Reqs |-> EmptyFrame]
  /\ pending = [r \in Reqs |-> NoResponse]
  /\ response = [r \in Reqs |-> NoResponse]
  /\ calls = [r \in Reqs |-> <<>>]
  /\ cleanups = [r \in Reqs |-> 0]

(***************************************************************************)
(* get_gemini_flash_llm, lines 41-58.                                      *)
(***************************************************************************)

\* A lookup that remembers a failure: once a request was refused for the
\* missing key, the key stays missing.
os_getenv_memoised(e) ==
  IF \E q \in Reqs : response[q].status = 400 /\ calls[q][1].out.val \in {Unset, ""}
  THEN Unset ELSE e

\* os.getenv("GEMINI_API_KEY"), line 43: the value the environment holds
\* when the call is made.
os_getenv(e) == e

\* The test `api_key is not None`, which lets the empty string through.
KeyNotNone(k) == k # Unset

\* `not api_key` is false, line 44: the key is neither None nor empty.
KeyConfigured(k) == k # Unset /\ k # ""

\* The function's outcome: a ValueError when the key is missing, otherwise
\* whatever the ChatGoogleGenerativeAI constructor (outcome lo) does.
get_gemini_flash_llm(k, lo) ==
  IF ~KeyConfigured(k) THEN Raise(Exc("ValueError", MissingKeyMsg)) ELSE lo

(***************************************************************************)
(* run_task_endpoint, lines 72-120.                                        *)
(***************************************************************************)

\* One frame for all invocations, as if the locals were module globals.
SharedFrame(r) == 1

\* The frame a handler invocation reads and writes its locals in: its own.
Frame(r) == r

NoExc == [type |-> "", msg |-> ""]

\* isinstance(e, ValueError), the test of the first except clause.
IsValueError(e) == e.type = "ValueError"

\* str(ve), line 107, and the f-string of line 111, as the pieces they
\* are put together from.
ConfigDetail(e) == [kind |-> "str", parts |-> <<e.msg>>]
ErrorDetail(e) ==
  [kind |-> "str", parts |-> <<"Error running agent: ", e.type, ": ", e.msg>>]

\* A handler that returns TaskResponse(error=...) instead of raising.
ExceptHandlerReturnsError(e) ==
  [status |-> 200, result |-> None, error |-> ErrorDetail(e), detail |-> None]

\* The except clauses, lines 105-111: the HTTPException raised for e.
ExceptHandler(e) ==
  IF IsValueError(e) THEN HTTPException(400, ConfigDetail(e))
  ELSE HTTPException(500, ErrorDetail(e))

\* Lines 76-95: the body of the try up to the call of agent.run(), run by
\* request r on frame f0 with task t, environment value e and constructor
\* outcomes lo, bo, ao.  Gives the frame, the calls made and the exception
\* raised (NoExc when the body reached agent.run()).
TryPrefix(r, f0, t, e, lo, bo, ao) ==
  LET f1 == [f0 EXCEPT !.task_description = t, !.agent = NoneObj]
      k == os_getenv(e)
      c1 == <<Ev("getenv", NoneObj, Ok(e))>>
      lres == get_gemini_flash_llm(k, lo)
      c2 == IF KeyConfigured(k)
            THEN Append(c1, Ev("ChatGoogleGenerativeAI",
                               IF lo.ok THEN LlmObj(r) ELSE NoneObj, lo))
            ELSE c1
      f2 == [f1 EXCEPT !.llm = LlmObj(r)]
      c3 == Append(c2, Ev("Browser", IF bo.ok THEN BrowserObj(r) ELSE NoneObj, bo))
      f3 == [f2 EXCEPT !.browser = BrowserObj(r)]
      a == AgentObj(r, f3.task_description, f3.llm, f3.browser)
      c4 == Append(c3, Ev("Agent", IF ao.ok THEN a ELSE NoneObj, ao))
      f4 == [f3 EXCEPT !.agent = a]
  IN IF ~lres.ok THEN [frame |-> f1, calls |-> c2, exc |-> lres.exc]
     ELSE IF ~bo.ok THEN [frame |-> f2, calls |-> c3, exc |-> bo.exc]
     ELSE IF ~ao.ok THEN [frame |-> f3, calls |-> c4, exc |-> ao.exc]
     ELSE [frame |-> f4, calls |-> c4, exc |-> NoExc]

\* Cleanup written after the try statement instead of in a finally block:
\* it runs when the body returned, not when an except clause raised.
OnlyOnReturn(p) == p.status = 200

\* `finally:`, line 112: the block runs whether the try statement is left
\* by the return or by a raise; p is the response in flight.
EntersFinally(p) == TRUE

\* A test that never finds a browser to close.
NeverClose(a) == FALSE

\* `if agent and agent.browser`, line 114.
ShouldClose(a) == a # NoneObj /\ a.browser # NoneObj

\* Lines 112-117: leaving the try statement with response p in flight, on
\* frames fr and with the calls cs made so far.  Either agent.close() is
\* called and the coroutine suspends on it, or the handler is done.
Unwind(r, fr, cs, p) ==
  /\ frame' = fr
  /\ pending' = [pending EXCEPT ![r] = p]
  /\ cleanups' = [cleanups EXCEPT ![r] = @ + (IF EntersFinally(p) THEN 1 ELSE 0)]
  /\ IF EntersFinally(p) /\ ShouldClose(fr[Frame(r)].agent)
     THEN /\ calls' = [calls EXCEPT ![r] =
                         Append(cs, Ev("close", fr[Frame(r)].agent, Suspended))]
          /\ pc' = [pc EXCEPT ![r] = "Closing"]
          /\ UNCHANGED response
     ELSE /\ calls' = [calls EXCEPT ![r] = cs]
          /\ pc' = [pc EXCEPT ![r] = "Responded"]
          /\ response' = [response EXCEPT ![r] = p]

\* Lines 72-99: a request arrives and its handler runs to its first await,
\* or to its end when it fails before that.  Requests are numbered in the
\* order they arrive in.
Begin(r) ==
  /\ pc[r] = "Idle"
  /\ \A q \in Reqs : q < r => pc[q] # "Idle"
  /\ \E lo \in CtorOutcomes, bo \in CtorOutcomes, ao \in CtorOutcomes :
       LET t == TaskOf(r)
           p == TryPrefix(r, frame[Frame(r)], t, env, lo, bo, ao)
           fr == [frame EXCEPT ![Frame(r)] = p.frame]
       IN /\ request' = [request EXCEPT ![r] = [task |-> t]]
          /\ IF p.exc = NoExc
             THEN /\ frame' = fr
                  /\ calls' = [calls EXCEPT ![r] =
                                 Append(p.calls, Ev("run", p.frame.agent, Suspended))]
                  /\ pc' = [pc EXCEPT ![r] = "Running"]
                  /\ UNCHANGED <<pending, response, cleanups>>
             ELSE Unwind(r, fr, p.calls, ExceptHandler(p.exc))
  /\ UNCHANGED env

Last(s) == s[Len(s)]

\* A handler that gives up on agent.run() after a while and answers
\* without its result.
RunTimesOut(r) ==
  /\ pc[r] = "Running"
  /\ Unwind(r, frame, calls[r], HTTPException(500, ErrorDetail(Exc("TimeoutError", ""))))
  /\ UNCHANGED <<env, request>>

\* Lines 99-117: agent.run() returns or raises; the result is turned into a
\* string and the response is built, or an except clause runs; then finally.
RunReturns(r) ==
  /\ pc[r] = "Running"
  /\ \E ro \in RunOutcomes :
       LET c1 == Append(calls[r], Ev("run.return", Last(calls[r]).obj, ro))
       IN IF ro.ok
          THEN LET fr == [frame EXCEPT ![Frame(r)].agent_result = ro.val]
               IN \E so \in StrOutcomes(fr[Frame(r)].agent_result) :
                    LET c2 == Append(c1, Ev("str", NoneObj, so))
                    IN IF so.ok
                       THEN Unwind(r, fr, c2, TaskResponse(so.val))
                       ELSE Unwind(r, fr, c2, ExceptHandler(so.exc))
          ELSE Unwind(r, frame, c1, ExceptHandler(ro.exc))
  /\ UNCHANGED <<env, request>>

\* No inner try: an exception of agent.close() replaces the response.
AfterClosePropagates(p, co) ==
  IF co.ok THEN p
  ELSE HTTPException(500, [kind |-> "str", parts |-> <<"Internal Server Error">>])

\* Lines 116-120: what leaves the handler once agent.close() came back with
\* outcome co.  An exception of close is printed and dropped.
AfterClose(p, co) == p

\* Lines 117-120: agent.close() returns or raises, and the handler is done.
CloseReturns(r) ==
  /\ pc[r] = "Closing"
  /\ \E co \in CloseOutcomes :
       /\ calls' = [calls EXCEPT ![r] =
                      Append(@, Ev("close.return", Last(calls[r]).obj, co))]
       /\ response' = [response EXCEPT ![r] = AfterClose(pending[r], co)]
  /\ pc' = [pc EXCEPT ![r] = "Responded"]
  /\ UNCHANGED <<env, request, frame, pending, cleanups>>

\* The environment variable is set, emptied or removed between requests.
ChangeEnv ==
  /\ \E k \in EnvValues \ {env} : env' = k
  /\ UNCHANGED <<pc, request, frame, pending, response, calls, cleanups>>

Next ==
  \/ \E r \in Reqs : Begin(r)
  \/ \E r \in Reqs : RunReturns(r)
  \/ \E r \in Reqs : CloseReturns(r)
  \/ ChangeEnv

Spec == Init /\ [][Next]_vars

(***************************************************************************)
(* What the record of calls says about a request.                          *)
(***************************************************************************)

Idx(r, op) == {i \in DOMAIN calls[r] : calls[r][i].op = op}
Count(r, op) == Cardinality(Idx(r, op))
Made(r, op) == {i \in Idx(r, op) : calls[r][i].out.ok}
Raised(r, op) == {i \in Idx(r, op) : ~calls[r][i].out.ok}
Before(r, op1, op2) == \A i \in Idx(r, op1), j \in Idx(r, op2) : i < j
Handled(r) == pc[r] # "Idle"
Responded(r) == pc[r] = "Responded"

\* The environment held no usable key when request r looked it up.
KeyMissingFor(r) == Handled(r) /\ calls[r][1].out.val \in {Unset, ""}

Contains(d, x) == d # None /\ \E i \in DOMAIN d.parts : d.parts[i] = x

\* C1: a request handled while GEMINI_API_KEY is not configured is answered
\* with HTTP 400, and it creates no model client, no browser and no agent
\* and attempts no close.
C1_MissingKeyIs400 ==
  \A r \in Reqs :
    KeyMissingFor(r) =>
      /\ Responded(r)
      /\ response[r].status = 400
      /\ \A i \in DOMAIN calls[r] : calls[r][i].op = "getenv"
      /\ frame[r].llm = NoneObj
      /\ frame[r].browser = NoneObj
      /\ frame[r].agent = NoneObj

C1_Witness ==
  \E r \in Reqs :
    KeyMissingFor(r) /\ Responded(r) /\ response[r].status = 400
    /\ response[r].detail = ConfigDetail(Exc("ValueError", MissingKeyMsg))

\* C2: when the Agent constructor or agent.run() raises, whatever the
\* exception's type, the response is HTTP 500 and its detail holds the
\* type's name and the exception's message.
C2_AgentFailureIs500 ==
  \A r \in Reqs :
    \A op \in {"Agent", "run.return"} :
      \A i \in Raised(r, op) :
        Responded(r) =>
          /\ response[r].status = 500
          /\ Contains(response[r].detail, calls[r][i].out.exc.type)
          /\ Contains(response[r].detail, calls[r][i].out.exc.msg)

\* C3: on every failing exit path, a browser the request created is
\* released exactly once before the request responds.
C3_FailureReleasesBrowser ==
  \A r \in Reqs :
    (Responded(r) /\ response[r].status \in {400, 500} /\ Made(r, "Browser") # {}) =>
      Count(r, "close") = 1

\* C4: a successful request calls agent.close() exactly once, after
\* agent.run() returned and the result string was computed, and the 200
\* response is not sent before that call.
C4_SuccessClosesOnce ==
  \A r \in Reqs :
    /\ response[r].status = 200 =>
         /\ Count(r, "close") = 1
         /\ Count(r, "close.return") = 1
         /\ Made(r, "run.return") # {} /\ Made(r, "str") # {}
         /\ Before(r, "run.return", "str")
         /\ Before(r, "str", "close")
         /\ Before(r, "close", "close.return")
    /\ (pending[r].status = 200 /\ Count(r, "close.return") = 0) =>
         response[r] = NoResponse

C4_Witness ==
  \E r \in Reqs :
    response[r].status = 200 /\ Count(r, "close") = 1
    /\ response[r].result = StrOf("history")

\* What request r met: the value of the environment and the outcomes of
\* its calls, in order, without the call named skip; the objects and the
\* task text, which differ from request to request, are left out.
InputsBut(r, skip) ==
  LET keep == SelectSeq(calls[r], LAMBDA e : e.op # skip)
  IN [i \in DOMAIN keep |-> [op |-> keep[i].op, out |-> keep[i].out]]

\* C5: an exception of agent.close() leaves the response as it was
\* determined before the cleanup: it is the one a request with the same
\* course and a successful close gets.
C5_CloseFailureKeepsResponse ==
  \A r \in Reqs :
    (Responded(r) /\ Raised(r, "close.return") # {}) =>
      /\ response[r] = pending[r]
      /\ response[r].status \in {200, 400, 500}
      /\ \A q \in Reqs :
           (Responded(q) /\ InputsBut(q, "close.return") = InputsBut(r, "close.return"))
             => response[q] = response[r]

C5_Witness ==
  \E r, q \in Reqs :
    /\ Responded(r) /\ Raised(r, "close.return") # {}
    /\ Responded(q) /\ Made(q, "close.return") # {}
    /\ InputsBut(q, "close.return") = InputsBut(r, "close.return")
    /\ response[r].status = 500

\* C6: every request goes through the cleanup step exactly once, on every
\* path; it responds only after the cleanup, and Responded is the only
\* state a request stops in.
C6_CleanupExactlyOnce ==
  \A r \in Reqs :
    /\ cleanups[r] <= 1
    /\ Responded(r) => cleanups[r] = 1
    /\ response[r] # NoResponse => (Responded(r) /\ cleanups[r] = 1)
    /\ (Handled(r) /\ ~Responded(r)) => ENABLED (RunReturns(r) \/ CloseReturns(r))
    /\ Responded(r) => ~ENABLED (Begin(r) \/ RunReturns(r) \/ CloseReturns(r))

C6_Witness ==
  \E r, q \in Reqs :
    /\ Responded(r) /\ response[r].status = 200 /\ cleanups[r] = 1
    /\ Responded(q) /\ KeyMissingFor(q) /\ cleanups[q] = 1

OwnedBy(o, r) ==
  \/ o = NoneObj
  \/ /\ o.owner = r
     /\ o.kind = "agent" => (o.llm = LlmObj(r) /\ o.browser = BrowserObj(r))

\* C7: under any interleaving of requests suspended at agent.run() or
\* agent.close(), a request makes at most one browser, every object it
\* passes on or calls is one it made itself, and the close of its cleanup
\* is the close of its own agent and browser.
C7_RequestsShareNothing ==
  \A r \in Reqs :
    /\ Cardinality(Made(r, "Browser")) <= 1
    /\ \A i \in DOMAIN calls[r] : OwnedBy(calls[r][i].obj, r)
    /\ \A i \in Idx(r, "close") \cup Idx(r, "close.return") \cup Idx(r, "run.return") :
         /\ calls[r][i].obj.kind = "agent"
         /\ calls[r][i].obj.owner = r
         /\ calls[r][i].obj.browser = BrowserObj(r)
         /\ calls[r][i].obj.task = request[r].task

C7_Witness ==
  \E r, q \in Reqs :
    /\ r # q
    /\ pc[r] = "Closing" /\ pc[q] = "Running"
    /\ Count(r, "close") = 1 /\ Count(q, "run") = 1

\* C8: a request ends with exactly one outcome: HTTP 200 with a result and
\* no error, or HTTP 400 or 500 with a detail and no result.
C8_ResultOrError ==
  \A r \in Reqs :
    /\ Responded(r) =>
         \/ /\ response[r].status = 200
            /\ response[r].result # None
            /\ response[r].error = None /\ response[r].detail = None
         \/ /\ response[r].status \in {400, 500}
            /\ response[r].detail # None
            /\ response[r].result = None
    /\ ~Responded(r) => response[r] = NoResponse

C8_Witness ==
  \E r, q \in Reqs :
    /\ Responded(r) /\ response[r].status = 200 /\ response[r].result # None
    /\ Responded(q) /\ response[q].status = 500 /\ response[q].detail # None

\* The event loop resumes a coroutine whose awaited call has come back, and
\* agent.run() and agent.close() each come back.
LiveSpec ==
  /\ Spec
  /\ \A r \in Reqs : WF_vars(RunReturns(r)) /\ WF_vars(CloseReturns(r))

\* C9: no timeout and no cancellation: while agent.run() has not returned
\* the request stays in Running, has sent no response and has not called
\* close, it leaves Running only with the return of agent.run(), and every
\* accepted request ends in Responded.
C9_RunIsAwaitedToItsEnd ==
  /\ [](\A r \in Reqs :
          pc[r] = "Running" =>
            (response[r] = NoResponse /\ Count(r, "close") = 0 /\ cleanups[r] = 0))
  /\ [][\A r \in Reqs :
          (pc[r] = "Running" /\ pc'[r] # "Running") =>
            (Count(r, "run.return") = 0 /\ Count(r, "run.return")' = 1)]_vars
  /\ \A r \in Reqs : Handled(r) ~> Responded(r)

C9_Witness ==
  \E r \in Reqs :
    /\ pc[r] = "Running" /\ Count(r, "run") = 1 /\ Count(r, "run.return") = 0
    /\ \E q \in Reqs : q # r /\ Responded(q)

Inputs(r) == InputsBut(r, "")

\* C10: nothing of a request outlives it: requests that met the same
\* environment and the same behaviour of the collaborators get the same
\* response, whatever was handled before them; a request handled with the
\* key set and collaborators that do not fail is answered with 200.
C10_NoStateAcrossRequests ==
  /\ \A r, q \in Reqs :
       (Responded(r) /\ Responded(q) /\ Inputs(r) = Inputs(q)) => response[r] = response[q]
  /\ \A r \in Reqs :
       (Responded(r) /\ calls[r][1].out.val = "key"
          /\ \A i \in DOMAIN calls[r] : calls[r][i].out.ok)
         => response[r].status = 200

C10_Witness ==
  \E r, q \in Reqs :
    /\ r < q
    /\ Responded(r) /\ KeyMissingFor(r) /\ response[r].status = 400
    /\ Responded(q) /\ response[q].status = 200
    /\ calls[q][1].out.val = "key"

====
